---------------------------- MODULE Spec2Model ----------------------------
(***************************************************************************)
(* The sketch surface of src/components/SketchPad.tsx: the stroke log, the *)
(* in-progress stroke, the tool configuration, the canvas bitmap painted   *)
(* by draw() and the flattened image produced by getCanvasData().          *)
(* Around it, the image slots fed by the uploaders of                      *)
(* src/unnamed/part_000 and handleGenerate of src/App.tsx.                 *)
(*                                                                         *)
(* React state is modelled as the values of the last render (these are     *)
(* also the values the handlers' closures read) plus the queue of state    *)
(* updates not rendered yet.  Updates made in a discrete event (mousedown, *)
(* mouseup, touchstart, touchend, click, change) are rendered before the   *)
(* handler's task ends; updates made in a continuous event (mousemove,     *)
(* touchmove, mouseleave) are rendered by a later scheduled task           *)
(* (flushWork), so another event can be handled first.                     *)
(***************************************************************************)
EXTENDS Integers, Sequences, FiniteSets, TLC

(* ------------------------------ bounds -------------------------------- *)
\* longest Stroke Log the model builds
MaxStrokes == 2
\* most points of one stroke
MaxPoints == 2
\* number of pointer positions the events are drawn from
NumPositions == 2
\* number of palette entries the model clicks
NumColors == 2
\* number of configuration events (tool, colour, width, aspect ratio) in a run
MaxConfig == 2
\* most handler batches waiting for the scheduled render
MaxQueue == 2
\* number of files given to the uploaders in a run
MaxUploads == 2

(* ------------------------- program constants -------------------------- *)
BASE_SIZE == 800
BRUSH_MIN == 1
BRUSH_MAX == 50
ERASER_MIN == 1
ERASER_MAX == 100
DEFAULT_BRUSH_SIZE == 5
DEFAULT_ERASER_SIZE == 20
BACKGROUND == "#0D1117"
TRANSPARENT == "transparent"

AspectRatios == {"1:1", "2:3", "3:2"}

\* ASPECT_RATIO_MAP as a fraction <<numerator, denominator>>
ASPECT_RATIO_MAP(r) ==
    CASE r = "1:1" -> <<1, 1>>
      [] r = "2:3" -> <<2, 3>>
      [] r = "3:2" -> <<3, 2>>

\* the palette of the component, in its order
colors == << "#EF4444", "#3B82F6", "#22C55E", "#FFFFFF" >>

Min(a, b) == IF a < b THEN a ELSE b

Palette == { colors[i] : i \in 1..Min(NumColors, Len(colors)) }

\* values a user or a script tries to give the two range inputs
RawBrushValues == {BRUSH_MIN - 1, BRUSH_MIN, BRUSH_MAX, BRUSH_MAX + 1}
RawEraserValues == {ERASER_MIN - 1, ERASER_MIN, ERASER_MAX, ERASER_MAX + 1}

\* a number input without the range limits
rangeValueUnclamped(min, max, v) == v

\* the value of <input type="range" min max>: the element keeps its value
\* within [min, max], and parseInt(e.target.value) reads it
rangeValue(min, max, v) ==
    IF v < min THEN min ELSE IF v > max THEN max ELSE v

\* values the two range inputs deliver
BrushSizes == { rangeValue(BRUSH_MIN, BRUSH_MAX, v) : v \in RawBrushValues }
EraserSizes == { rangeValue(ERASER_MIN, ERASER_MAX, v) : v \in RawEraserValues }

(* --------------------------- pointer events --------------------------- *)
\* bounding rectangle of the canvas on screen
CanvasRect == [left |-> 100, top |-> 50]

\* client positions of the pointer events, in the order they are enabled
ClientPositions ==
    << [clientX |-> 110, clientY |-> 60],
       [clientX |-> 120, clientY |-> 60],
       [clientX |-> 140, clientY |-> 60],
       [clientX |-> 120, clientY |-> 70] >>

Events == { ClientPositions[i] : i \in 1..Min(NumPositions, Len(ClientPositions)) }

getCanvasCoordinates(e) ==
    [x |-> e.clientX - CanvasRect.left, y |-> e.clientY - CanvasRect.top]

\* the pixels of the bitmap the model samples: those under the pointer positions
Pixels == { getCanvasCoordinates(e) : e \in Events }

\* null, for the in-progress slot and for the result of an export
NoPath == [null |-> "path"]
NoData == [null |-> "data"]

\* the three ImageUploader instances of App, by the slot they feed
Uploaders == {"refImage1", "refImage2", "bgImage"}

\* MIME types of the files a change or drop event delivers
MimeTypes == {"image/jpeg", "image/png", "image/webp", "image/gif", "application/pdf"}
Files == [type : MimeTypes]

\* null values of the application state
NoFile == [null |-> "file"]
NoPreview == [null |-> "preview"]
NoImage == [null |-> "image"]
NoError == [null |-> "error"]
NoRequest == [null |-> "request"]
NoUpload == [null |-> "upload"]

\* the messages handleGenerate and generateImage produce
SKETCH_ERROR == [message |-> "Could not get sketch data."]
NO_IMAGE_ERROR ==
    [message |-> "Failed to generate image. The model did not return an image."]
SERVICE_ERROR ==
    [message |-> "Failed to generate image. Please check your inputs and API key."]

VARIABLES
    strokes,       \* useState<Stroke[]>: the Stroke Log as of the last render
    currentPath,   \* useState<Stroke | null>: the in-progress stroke
    isDrawing,     \* useState(false)
    activeTool,    \* "brush" | "eraser"
    brushColor,
    brushSize,
    eraserSize,
    aspectRatio,   \* App state, passed down as a prop
    queue,         \* state updates of handled events not rendered yet
    canvas,        \* the <canvas>: [width, height, pixels]
    canvasData,    \* value of the last getCanvasData() call (local of handleGenerate)
    commits,       \* history: commits not yet undone since the log was emptied
    undos,         \* history: undo() calls since the last commit or clear
    moves,         \* history: move events handled in the open stroke
    configs,       \* history: configuration events so far
    lastEvent,     \* history: the event handled by the last step
    refImage1,     \* App state: the three image slots (File | null)
    refImage2,
    bgImage,
    preview,       \* ImageUploader state of each of the three uploaders
    reading,       \* files handed to a FileReader whose onloadend is still to come
    isLoading,     \* App state
    generatedImage,
    error,
    request,       \* arguments of the generateImage call in flight
    uploads,       \* history: files given to the uploaders so far
    lastUpload     \* history: uploader and file of the last handleFile call

\* state of the sketch surface
sketchVars == << strokes, currentPath, isDrawing, activeTool, brushColor, brushSize,
                 eraserSize, aspectRatio, queue, canvas, commits, undos, moves, configs >>

\* state of the application around it
appVars == << refImage1, refImage2, bgImage, preview, reading, isLoading,
              generatedImage, error, request, uploads, lastUpload >>

vars == << strokes, currentPath, isDrawing, activeTool, brushColor, brushSize,
           eraserSize, aspectRatio, queue, canvas, canvasData,
           commits, undos, moves, configs, lastEvent,
           refImage1, refImage2, bgImage, preview, reading, isLoading,
           generatedImage, error, request, uploads, lastUpload >>

config == << activeTool, brushColor, brushSize, eraserSize >>

(* ------------------------------ Renderer ------------------------------ *)
Sq(n) == n * n

\* the pixel c lies within half the line width of the segment a-b
\* (a line stroked with round caps and round joins)
NearSegment(c, a, b, w) ==
    LET dx == b.x - a.x
        dy == b.y - a.y
        len2 == Sq(dx) + Sq(dy)
        t == (c.x - a.x) * dx + (c.y - a.y) * dy
        da2 == Sq(c.x - a.x) + Sq(c.y - a.y)
        db2 == Sq(c.x - b.x) + Sq(c.y - b.y)
    IN  IF len2 = 0 \/ t <= 0 THEN 4 * da2 <= Sq(w)
        ELSE IF t >= len2 THEN 4 * db2 <= Sq(w)
        ELSE 4 * (da2 * len2 - Sq(t)) <= Sq(w) * len2

\* ctx.moveTo(points[0]); points.forEach(lineTo); ctx.stroke()
Covers(stroke, c) ==
    \E i \in 1..Len(stroke.points) :
        NearSegment(c, stroke.points[IF i = 1 THEN 1 ELSE i - 1], stroke.points[i],
                    stroke.width)

\* draw() without globalCompositeOperation = 'destination-out' for the eraser
paintStrokeSourceOver(pixels, stroke) ==
    IF stroke = NoPath \/ Len(stroke.points) = 0 THEN pixels
    ELSE [c \in DOMAIN pixels |-> IF Covers(stroke, c) THEN stroke.color ELSE pixels[c]]

\* one iteration of the forEach of draw(): paint one stroke onto the pixels
paintStroke(pixels, stroke) ==
    IF stroke = NoPath \/ Len(stroke.points) = 0 THEN pixels
    ELSE [c \in DOMAIN pixels |->
            IF Covers(stroke, c)
            THEN (IF stroke.tool = "eraser" THEN TRANSPARENT ELSE stroke.color)
            ELSE pixels[c]]

RECURSIVE paintAll(_, _)
paintAll(pixels, list) ==
    IF list = << >> THEN pixels
    ELSE paintAll(paintStroke(pixels, Head(list)), Tail(list))

\* ctx.clearRect(0, 0, canvas.width, canvas.height)
clearRect(cv) ==
    [c \in Pixels |-> TRANSPARENT]

\* draw(): clear, then [...strokes, currentPath] in order
draw(cv, log, path) ==
    [cv EXCEPT !.pixels = paintAll(clearRect(cv), Append(log, path))]

\* width attribute of the <canvas>: 800 * ASPECT_RATIO_MAP[aspectRatio], as an integer
canvasWidth(r) == (BASE_SIZE * ASPECT_RATIO_MAP(r)[1]) \div ASPECT_RATIO_MAP(r)[2]

\* setting the width attribute to a new value resets the bitmap
setWidth(cv, w) ==
    IF cv.width = w THEN cv
    ELSE [cv EXCEPT !.width = w, !.pixels = [c \in Pixels |-> TRANSPARENT]]

(* ------------------------------ Exporter ------------------------------ *)
\* getCanvasData() without the fillRect of the background
getCanvasDataNoFill(cv) ==
    [width |-> cv.width, height |-> cv.height, pixels |-> cv.pixels]

\* getCanvasData(): fill a temporary canvas with the background, draw the
\* live canvas over it
getCanvasData(cv) ==
    [width |-> cv.width, height |-> cv.height,
     pixels |-> [c \in Pixels |->
                    IF cv.pixels[c] = TRANSPARENT THEN BACKGROUND ELSE cv.pixels[c]]]

(* --------------------------- state updates ---------------------------- *)
\* strokes.slice(1): drops the oldest stroke
sliceFromOne(list) == SubSeq(list, 2, Len(list))

\* strokes.slice(0, 1): keeps the oldest stroke
sliceToOne(list) == SubSeq(list, 1, Min(1, Len(list)))

\* strokes.slice(0, -1)
slice(list) == SubSeq(list, 1, Len(list) - 1)

\* handleMouseUp without setCurrentPath(null)
applyUpdateKeepsPath(s, u) ==
    CASE u.op = "down" ->
            [s EXCEPT !.isDrawing = TRUE, !.currentPath = u.path, !.dirty = TRUE]
      [] u.op = "move" ->
            IF s.currentPath = NoPath THEN s
            ELSE [s EXCEPT !.currentPath.points = Append(@, u.point), !.dirty = TRUE]
      [] u.op = "up" ->
            [strokes |-> IF u.path = NoPath THEN s.strokes ELSE Append(s.strokes, u.path),
             currentPath |-> s.currentPath,
             isDrawing |-> FALSE,
             dirty |-> s.dirty \/ u.path # NoPath]
      [] u.op = "set" ->
            [s EXCEPT !.strokes = u.value, !.dirty = TRUE]

\* handleMouseUp without setIsDrawing(false)
applyUpdateKeepsDrawing(s, u) ==
    CASE u.op = "down" ->
            [s EXCEPT !.isDrawing = TRUE, !.currentPath = u.path, !.dirty = TRUE]
      [] u.op = "move" ->
            IF s.currentPath = NoPath THEN s
            ELSE [s EXCEPT !.currentPath.points = Append(@, u.point), !.dirty = TRUE]
      [] u.op = "up" ->
            [strokes |-> IF u.path = NoPath THEN s.strokes ELSE Append(s.strokes, u.path),
             currentPath |-> NoPath,
             isDrawing |-> s.isDrawing,
             dirty |-> s.dirty \/ u.path # NoPath \/ s.currentPath # NoPath]
      [] u.op = "set" ->
            [s EXCEPT !.strokes = u.value, !.dirty = TRUE]

\* The state updates one handler call enqueues, as one batch:
\*   down : setIsDrawing(true); setCurrentPath({points: [point], ...})
\*   move : setCurrentPath(prev => prev ? {...prev, points: [...prev.points, point]} : null)
\*   up   : if (path) setStrokes(prev => [...prev, path]); setCurrentPath(null); setIsDrawing(false)
\*   set  : setStrokes(value)
applyUpdate(s, u) ==
    CASE u.op = "down" ->
            [s EXCEPT !.isDrawing = TRUE, !.currentPath = u.path, !.dirty = TRUE]
      [] u.op = "move" ->
            IF s.currentPath = NoPath THEN s
            ELSE [s EXCEPT !.currentPath.points = Append(@, u.point), !.dirty = TRUE]
      [] u.op = "up" ->
            [strokes |-> IF u.path = NoPath THEN s.strokes ELSE Append(s.strokes, u.path),
             currentPath |-> NoPath,
             isDrawing |-> FALSE,
             dirty |-> s.dirty \/ u.path # NoPath \/ s.currentPath # NoPath]
      [] u.op = "set" ->
            [s EXCEPT !.strokes = u.value, !.dirty = TRUE]

RECURSIVE processQueue(_, _)
processQueue(s, q) ==
    IF q = << >> THEN s ELSE processQueue(applyUpdate(s, Head(q)), Tail(q))

\* the state the next render produces from the rendered state and the updates q;
\* dirty: strokes or currentPath is a new object, so draw is a new callback
rendered(q) ==
    processQueue([strokes |-> strokes, currentPath |-> currentPath,
                  isDrawing |-> isDrawing, dirty |-> FALSE], q)

\* One render and commit of the component with the updates q applied and the
\* aspect ratio r: the canvas gets its width attribute, then the effect runs
\* draw() when the draw callback changed.
render(q, r) ==
    LET s == rendered(q)
        cv == setWidth(canvas, canvasWidth(r))
    IN  /\ strokes' = s.strokes
        /\ currentPath' = s.currentPath
        /\ isDrawing' = s.isDrawing
        /\ aspectRatio' = r
        /\ canvas' = IF s.dirty THEN draw(cv, s.strokes, s.currentPath) ELSE cv
        /\ queue' = << >>

\* number of commits waiting in the queue
RECURSIVE pendingCommits(_)
pendingCommits(q) ==
    IF q = << >> THEN 0
    ELSE (IF Head(q).op = "up" /\ Head(q).path # NoPath THEN 1 ELSE 0)
         + pendingCommits(Tail(q))

RECURSIVE pendingMoves(_)
pendingMoves(q) ==
    IF q = << >> THEN 0
    ELSE (IF Head(q).op = "move" THEN 1 ELSE 0) + pendingMoves(Tail(q))

(* ------------------------------- Init --------------------------------- *)
Init ==
    /\ strokes = << >>
    /\ currentPath = NoPath
    /\ isDrawing = FALSE
    /\ activeTool = "brush"
    /\ brushColor = colors[1]
    /\ brushSize = DEFAULT_BRUSH_SIZE
    /\ eraserSize = DEFAULT_ERASER_SIZE
    /\ aspectRatio = "3:2"
    /\ queue = << >>
    /\ canvas = [width |-> canvasWidth("3:2"), height |-> BASE_SIZE,
                 pixels |-> [c \in Pixels |-> TRANSPARENT]]
    /\ canvasData = NoData
    /\ commits = 0
    /\ undos = 0
    /\ moves = 0
    /\ configs = 0
    /\ lastEvent = "mount"
    /\ refImage1 = NoFile
    /\ refImage2 = NoFile
    /\ bgImage = NoFile
    /\ preview = [u \in Uploaders |-> NoPreview]
    /\ reading = [u \in Uploaders |-> << >>]
    /\ isLoading = FALSE
    /\ generatedImage = NoImage
    /\ error = NoError
    /\ request = NoRequest
    /\ uploads = 0
    /\ lastUpload = NoUpload

(* --------------------------- Input Tracker ---------------------------- *)
\* history of a commit event
commitHistory(path) ==
    IF path = NoPath THEN UNCHANGED << commits, undos >>
    ELSE /\ commits' = IF commits >= 0 /\ undos = 0 THEN commits + 1 ELSE -1
         /\ undos' = 0

\* a stroke opened without its initiating point
openStrokeUnseeded(point) ==
    [points |-> << >>,
     color |-> brushColor,
     width |-> IF activeTool = "brush" THEN brushSize ELSE eraserSize,
     tool |-> activeTool]

\* a stroke that takes the brush width whatever the tool
openStrokeBrushWidth(point) ==
    [points |-> << point >>,
     color |-> brushColor,
     width |-> brushSize,
     tool |-> activeTool]

\* the object handleMouseDown passes to setCurrentPath
openStroke(point) ==
    [points |-> << point >>,
     color |-> brushColor,
     width |-> IF activeTool = "brush" THEN brushSize ELSE eraserSize,
     tool |-> activeTool]

\* onMouseDown / onTouchStart (discrete events)
handleMouseDown(e) ==
    /\ Len(strokes) + pendingCommits(queue) < MaxStrokes
    /\ LET point == getCanvasCoordinates(e)
       IN  render(Append(queue, [op |-> "down", path |-> openStroke(point)]), aspectRatio)
    /\ moves' = 0
    /\ canvasData' = NoData
    /\ lastEvent' = "down"
    /\ UNCHANGED appVars
    /\ UNCHANGED << config, commits, undos, configs >>

\* onMouseMove / onTouchMove (continuous events)
handleMouseMove(e) ==
    /\ Len(queue) < MaxQueue
    /\ IF ~isDrawing \/ currentPath = NoPath
       THEN UNCHANGED << queue, moves >>
       ELSE /\ Len(currentPath.points) + pendingMoves(queue) < MaxPoints
            /\ queue' = Append(queue, [op |-> "move", point |-> getCanvasCoordinates(e)])
            /\ moves' = moves + 1
    /\ canvasData' = NoData
    /\ lastEvent' = "move"
    /\ UNCHANGED appVars
    /\ UNCHANGED << strokes, currentPath, isDrawing, config, aspectRatio, canvas,
                    commits, undos, configs >>

\* onMouseUp / onTouchEnd (discrete events)
handleMouseUp ==
    /\ currentPath # NoPath => Len(strokes) + pendingCommits(queue) < MaxStrokes
    /\ render(Append(queue, [op |-> "up", path |-> currentPath]), aspectRatio)
    /\ commitHistory(currentPath)
    /\ canvasData' = NoData
    /\ lastEvent' = "up"
    /\ UNCHANGED appVars
    /\ UNCHANGED << config, moves, configs >>

\* onMouseLeave (a continuous event) calls handleMouseUp
onMouseLeave ==
    /\ Len(queue) < MaxQueue
    /\ currentPath # NoPath => Len(strokes) + pendingCommits(queue) < MaxStrokes
    /\ queue' = Append(queue, [op |-> "up", path |-> currentPath])
    /\ commitHistory(currentPath)
    /\ canvasData' = NoData
    /\ lastEvent' = "leave"
    /\ UNCHANGED appVars
    /\ UNCHANGED << strokes, currentPath, isDrawing, config, aspectRatio, canvas,
                    moves, configs >>

\* the render scheduled by a continuous event
flushWork ==
    /\ queue # << >>
    /\ render(queue, aspectRatio)
    /\ canvasData' = NoData
    /\ lastEvent' = "render"
    /\ UNCHANGED appVars
    /\ UNCHANGED << config, commits, undos, moves, configs >>

(* ---------------------------- Stroke Model ---------------------------- *)
\* undo() that also abandons the stroke in progress
handleUndoCancelsStroke ==
    /\ render(queue \o << [op |-> "set", value |-> slice(strokes)],
                          [op |-> "up", path |-> NoPath] >>, aspectRatio)
    /\ undos' = IF commits >= 0 THEN Min(undos + 1, MaxStrokes) ELSE undos
    /\ canvasData' = NoData
    /\ lastEvent' = "undo"
    /\ UNCHANGED appVars
    /\ UNCHANGED << config, commits, moves, configs >>

handleUndo ==
    /\ render(Append(queue, [op |-> "set", value |-> slice(strokes)]), aspectRatio)
    /\ undos' = IF commits >= 0 THEN Min(undos + 1, MaxStrokes) ELSE undos
    /\ canvasData' = NoData
    /\ lastEvent' = "undo"
    /\ UNCHANGED appVars
    /\ UNCHANGED << config, commits, moves, configs >>

\* clear() written as a second undo: setStrokes(strokes.slice(0, -1))
handleClearAsUndo ==
    /\ render(Append(queue, [op |-> "set", value |-> slice(strokes)]), aspectRatio)
    /\ commits' = 0
    /\ undos' = 0
    /\ canvasData' = NoData
    /\ lastEvent' = "clear"
    /\ UNCHANGED appVars
    /\ UNCHANGED << config, moves, configs >>

\* clear() that also drops the stroke in progress: setCurrentPath(null)
handleClearDropsPath ==
    /\ render(queue \o << [op |-> "set", value |-> << >>],
                          [op |-> "up", path |-> NoPath] >>, aspectRatio)
    /\ commits' = 0
    /\ undos' = 0
    /\ canvasData' = NoData
    /\ lastEvent' = "clear"
    /\ UNCHANGED appVars
    /\ UNCHANGED << config, moves, configs >>

handleClear ==
    /\ render(Append(queue, [op |-> "set", value |-> << >>]), aspectRatio)
    /\ commits' = 0
    /\ undos' = 0
    /\ canvasData' = NoData
    /\ lastEvent' = "clear"
    /\ UNCHANGED appVars
    /\ UNCHANGED << config, moves, configs >>

(* ------------------------- Surface Controller ------------------------- *)
\* a configuration event: the click or change is a discrete event, so the
\* component renders with the queued updates before the task ends
configEvent(name) ==
    /\ configs < MaxConfig
    /\ configs' = configs + 1
    /\ canvasData' = NoData
    /\ lastEvent' = name
    /\ UNCHANGED appVars
    /\ UNCHANGED << commits, undos, moves >>

\* a palette button: setBrushColor(color.value); setActiveTool('brush')
setBrushColor(c) ==
    /\ configEvent("color")
    /\ brushColor' = c
    /\ activeTool' = "brush"
    /\ render(queue, aspectRatio)
    /\ UNCHANGED << brushSize, eraserSize >>

\* the eraser button: setActiveTool('eraser')
setActiveTool ==
    /\ configEvent("tool")
    /\ activeTool' = "eraser"
    /\ render(queue, aspectRatio)
    /\ UNCHANGED << brushColor, brushSize, eraserSize >>

setBrushSize(v) ==
    /\ configEvent("brushSize")
    /\ brushSize' = v
    /\ render(queue, aspectRatio)
    /\ UNCHANGED << activeTool, brushColor, eraserSize >>

setEraserSize(v) ==
    /\ configEvent("eraserSize")
    /\ eraserSize' = v
    /\ render(queue, aspectRatio)
    /\ UNCHANGED << activeTool, brushColor, brushSize >>

\* an aspect-ratio button that also empties the log: setStrokes([])
setAspectRatioClearing(r) ==
    /\ configEvent("ratio")
    /\ render(Append(queue, [op |-> "set", value |-> << >>]), r)
    /\ UNCHANGED config

setAspectRatio(r) ==
    /\ configEvent("ratio")
    /\ render(queue, r)
    /\ UNCHANGED config

(* ------------------------------ Exporter ------------------------------ *)
\* handleGenerate reads the sketch: sketchPadRef.current?.getCanvasData()
exportSketch ==
    /\ canvasData' = getCanvasData(canvas)
    /\ lastEvent' = "export"
    /\ UNCHANGED appVars
    /\ UNCHANGED << strokes, currentPath, isDrawing, config, aspectRatio, queue,
                    canvas, commits, undos, moves, configs >>

(* ---------------------------- ImageUploader --------------------------- *)
\* a type check that also lets GIF images through
acceptedWithGif(file) ==
    file.type \in {"image/jpeg", "image/png", "image/webp", "image/gif"}

\* ['image/jpeg', 'image/png', 'image/webp'].includes(file.type)
accepted(file) ==
    file.type \in {"image/jpeg", "image/png", "image/webp"}

\* reader.result of readAsDataURL(file)
readAsDataURL(file) == [dataUrl |-> file.type]

\* onFileChange of the uploader u: setRefImage1, setRefImage2 or setBgImage
onFileChange(u, value) ==
    /\ refImage1' = IF u = "refImage1" THEN value ELSE refImage1
    /\ refImage2' = IF u = "refImage2" THEN value ELSE refImage2
    /\ bgImage' = IF u = "bgImage" THEN value ELSE bgImage

\* the slot of App the uploader u feeds
slot(u) ==
    CASE u = "refImage1" -> refImage1
      [] u = "refImage2" -> refImage2
      [] u = "bgImage" -> bgImage

\* handleChange / handleDrop with a file: handleFile(file)
handleFile(u, file) ==
    /\ uploads < MaxUploads
    /\ uploads' = uploads + 1
    /\ lastUpload' = [uploader |-> u, file |-> file]
    /\ IF accepted(file)
       THEN /\ reading' = [reading EXCEPT ![u] = Append(@, file)]
            /\ onFileChange(u, file)
            /\ UNCHANGED preview
       ELSE /\ preview' = [preview EXCEPT ![u] = NoPreview]
            /\ onFileChange(u, NoFile)
            /\ UNCHANGED reading
    /\ canvasData' = NoData
    /\ lastEvent' = "upload"
    /\ UNCHANGED << sketchVars, isLoading, generatedImage, error, request >>

\* reader.onloadend of one of the readers of the uploader u: setPreview(reader.result)
onloadend(u) ==
    /\ reading[u] # << >>
    /\ \E i \in 1..Len(reading[u]) :
          /\ preview' = [preview EXCEPT ![u] = readAsDataURL(reading[u][i])]
          /\ reading' = [reading EXCEPT ![u] =
                            SubSeq(@, 1, i - 1) \o SubSeq(@, i + 1, Len(@))]
    /\ canvasData' = NoData
    /\ lastEvent' = "loadend"
    /\ UNCHANGED << sketchVars, refImage1, refImage2, bgImage, isLoading,
                    generatedImage, error, request, uploads, lastUpload >>

(* --------------------------------- App -------------------------------- *)
\* sketchPadRef.current?.getCanvasData(): null when the canvas element or the
\* 2d context of the temporary canvas is missing
getCanvasDataOrNull(cv, available) ==
    IF available THEN getCanvasData(cv) ELSE NoData

\* the arguments handleGenerate passes to generateImage
generateImageArgs(data) ==
    [refImage1 |-> refImage1, refImage2 |-> refImage2, bgImage |-> bgImage,
     sketchImage |-> data]

\* handleGenerate without the return after setError
handleGenerateNoReturn(available) ==
    /\ ~isLoading
    /\ LET data == getCanvasDataOrNull(canvas, available)
       IN  /\ canvasData' = data
           /\ isLoading' = TRUE
           /\ error' = NoError
           /\ generatedImage' = NoImage
           /\ request' = generateImageArgs(data)
    /\ lastEvent' = "generate"
    /\ UNCHANGED << sketchVars, refImage1, refImage2, bgImage, preview, reading,
                    uploads, lastUpload >>

\* the Generate button (disabled while isLoading): handleGenerate up to the await
handleGenerate(available) ==
    /\ ~isLoading
    /\ LET data == getCanvasDataOrNull(canvas, available)
       IN  /\ canvasData' = data
           /\ IF data = NoData
              THEN /\ error' = SKETCH_ERROR
                   /\ UNCHANGED << isLoading, generatedImage, request >>
              ELSE /\ isLoading' = TRUE
                   /\ error' = NoError
                   /\ generatedImage' = NoImage
                   /\ request' = generateImageArgs(data)
    /\ lastEvent' = "generate"
    /\ UNCHANGED << sketchVars, refImage1, refImage2, bgImage, preview, reading,
                    uploads, lastUpload >>

\* what the generateImage promise settles with
Outcomes == {"image", "null", "throw"}

\* handleGenerate after the await: the result, the catch and the finally
generateImageSettled(outcome) ==
    /\ request # NoRequest
    /\ generatedImage' = IF outcome = "image" THEN [dataUrl |-> "image/png"]
                         ELSE generatedImage
    /\ error' = CASE outcome = "image" -> error
                  [] outcome = "null" -> NO_IMAGE_ERROR
                  [] outcome = "throw" -> SERVICE_ERROR
    /\ isLoading' = FALSE
    /\ request' = NoRequest
    /\ canvasData' = NoData
    /\ lastEvent' = "settled"
    /\ UNCHANGED << sketchVars, refImage1, refImage2, bgImage, preview, reading,
                    uploads, lastUpload >>

\* a click on the result overlay or its close button: setGeneratedImage(null)
closeResult ==
    /\ generatedImage # NoImage
    /\ generatedImage' = NoImage
    /\ canvasData' = NoData
    /\ lastEvent' = "close"
    /\ UNCHANGED << sketchVars, refImage1, refImage2, bgImage, preview, reading,
                    isLoading, error, request, uploads, lastUpload >>

Next ==
    \/ \E e \in Events : handleMouseDown(e)
    \/ \E e \in Events : handleMouseMove(e)
    \/ handleMouseUp
    \/ onMouseLeave
    \/ flushWork
    \/ handleUndo
    \/ handleClear
    \/ \E c \in Palette : setBrushColor(c)
    \/ setActiveTool
    \/ \E v \in BrushSizes : setBrushSize(v)
    \/ \E v \in EraserSizes : setEraserSize(v)
    \/ \E r \in AspectRatios : setAspectRatio(r)
    \/ exportSketch

Spec == Init /\ [][Next]_vars

\* the application around the sketch surface: uploads and generation, with
\* strokes drawn and committed in between
NextApp ==
    \/ \E u \in Uploaders : \E file \in Files : handleFile(u, file)
    \/ \E u \in Uploaders : onloadend(u)
    \/ \E available \in BOOLEAN : handleGenerate(available)
    \/ \E outcome \in Outcomes : generateImageSettled(outcome)
    \/ closeResult
    \/ \E e \in Events : handleMouseDown(e)
    \/ handleMouseUp

SpecApp == Init /\ [][NextApp]_vars

(* ============================== properties ============================ *)
\* the state once every queued update is rendered
settled == rendered(queue)

\* the canvas bitmap draw() paints from the rendered state
painted == draw(canvas, strokes, currentPath).pixels

FlatBackground == [c \in Pixels |-> BACKGROUND]

C2_SurfaceIsRenderOfLog ==
    /\ canvas.pixels = painted
    /\ lastEvent = "export" =>
          canvasData.pixels =
             [c \in Pixels |-> IF painted[c] = TRANSPARENT THEN BACKGROUND ELSE painted[c]]

\* C3: a pointer-end or pointer-leave event with a stroke in progress appends
\* that stroke, with the points, tool, colour and width it had, exactly once as
\* the last element of the log and empties the in-progress slot; with no stroke
\* open the log and the slot are unchanged.
C3_PointerEndCommitsOnce ==
    [][lastEvent' \in {"up", "leave"} =>
          IF settled.currentPath # NoPath
          THEN /\ settled'.strokes = Append(settled.strokes, settled.currentPath)
               /\ settled'.currentPath = NoPath
          ELSE /\ settled'.strokes = settled.strokes
               /\ settled'.currentPath = settled.currentPath]_vars

\* C4: every move event received while Drawing adds exactly one point to the
\* in-progress stroke, and the stroke committed at pointer-end has exactly
\* (move events since pointer-begin) + 1 points.
C4_OnePointPerMove ==
    [][/\ (lastEvent' = "move" /\ settled.currentPath # NoPath) =>
             Len(settled'.currentPath.points) = Len(settled.currentPath.points) + 1
       /\ (lastEvent' \in {"up", "leave"} /\ Len(settled'.strokes) > Len(settled.strokes)) =>
             Len(settled'.strokes[Len(settled'.strokes)].points) = moves + 1]_vars

\* the points of the move events waiting in the queue
RECURSIVE queuedPoints(_)
queuedPoints(q) ==
    IF q = << >> THEN { }
    ELSE (IF Head(q).op = "move" THEN {Head(q).point} ELSE { }) \cup queuedPoints(Tail(q))

\* C5: no handler acts on stale state: a point appended by a move is in the
\* stroke committed by the following pointer-end, and an undo issued after a
\* commit removes that commit's stroke and nothing else.
C5_NoStaleHandler ==
    [][/\ (lastEvent' \in {"up", "leave"} /\ settled.currentPath # NoPath) =>
             LET log == settled'.strokes
             IN  /\ log # << >>
                 /\ \A p \in queuedPoints(queue) :
                       \E i \in 1..Len(log[Len(log)].points) : log[Len(log)].points[i] = p
       /\ (lastEvent' = "undo" /\ settled.strokes # << >>) =>
             strokes' = SubSeq(settled.strokes, 1, Len(settled.strokes) - 1)]_vars

\* C6: a pointer-begin received while Drawing is ignored: the in-progress
\* stroke and the log are unchanged and the state stays Drawing.
C6_SecondPointerBeginIgnored ==
    [][(lastEvent' = "down" /\ isDrawing /\ currentPath # NoPath) =>
          /\ currentPath' = currentPath
          /\ strokes' = strokes
          /\ isDrawing']_vars

\* C7: N commits from an empty log followed by N undo() calls, with no other
\* log operation in between, return the log to empty.
C7_UndoAllReturnsToEmpty ==
    (commits >= 0 /\ undos >= commits) => (strokes = << >> /\ settled.strokes = << >>)

\* two commits from the empty log were followed by two undos
C7_Witness ==
    /\ commits = 2
    /\ undos = 2
    /\ lastEvent = "undo"
    /\ strokes = << >>

\* C8: clear() leaves the log empty from any prior state.
C8_ClearEmptiesLog ==
    [][lastEvent' = "clear" => (strokes' = << >> /\ settled'.strokes = << >>)]_vars

\* clear() has just run while a stroke is in progress
C8_Witness ==
    /\ lastEvent = "clear"
    /\ strokes = << >>
    /\ currentPath # NoPath

\* C9 as stated: an export with an empty log is the flat background image.
C9_EmptyLogExportsFlat ==
    (lastEvent = "export" /\ strokes = << >>) => canvasData.pixels = FlatBackground

\* C9: an export with an empty log and no stroke in progress is the flat
\* background image at the dimensions of the current aspect ratio.
C9_EmptyIdleExportsFlat ==
    (lastEvent = "export" /\ strokes = << >> /\ currentPath = NoPath) =>
        /\ canvasData.pixels = FlatBackground
        /\ canvasData.width = canvasWidth(aspectRatio)
        /\ canvasData.height = BASE_SIZE

\* an export of the empty, idle surface at a ratio other than the initial one
C9_Witness ==
    /\ lastEvent = "export"
    /\ strokes = << >>
    /\ currentPath = NoPath
    /\ aspectRatio = "2:3"
    /\ canvasData.pixels = FlatBackground

\* C10: every stroke in the log has at least one point.
C10_NoEmptyStroke ==
    /\ \A i \in 1..Len(strokes) : Len(strokes[i].points) >= 1
    /\ \A i \in 1..Len(settled.strokes) : Len(settled.strokes[i].points) >= 1

\* a stroke opened and ended without any move is in the log
C10_Witness ==
    /\ strokes # << >>
    /\ Len(strokes[1].points) = 1

C12_OneLogMutationPerStep ==
    [][\/ strokes' = strokes
       \/ /\ Len(strokes') = Len(strokes) + 1
          /\ SubSeq(strokes', 1, Len(strokes)) = strokes
       \/ /\ strokes # << >>
          /\ strokes' = SubSeq(strokes, 1, Len(strokes) - 1)
       \/ strokes' = << >>]_vars

(* ------------------------- Surface Controller ------------------------- *)
ConfigEvents == {"color", "tool", "brushSize", "eraserSize", "ratio"}

\* C13: a change of the active tool, the brush colour, the brush width, the
\* eraser width or the aspect ratio leaves the Stroke Log unchanged and leaves
\* the tool, colour, width and points of a stroke in progress unchanged.
C13_ConfigLeavesStrokesAlone ==
    [][lastEvent' \in ConfigEvents =>
          /\ settled'.strokes = settled.strokes
          /\ settled'.isDrawing = settled.isDrawing
          /\ settled'.currentPath = settled.currentPath]_vars

\* the tool was switched to the eraser while a brush stroke is in progress and
\* a stroke is in the log
C13_Witness ==
    /\ lastEvent = "tool"
    /\ activeTool = "eraser"
    /\ strokes # << >>
    /\ currentPath # NoPath
    /\ currentPath.tool = "brush"

\* C14: the stroke opened by pointer-begin has exactly one point and carries
\* the configuration of that moment: the active tool, the active brush colour,
\* and the brush width for the brush or the eraser width for the eraser.
C14_OpenedStrokeTaggedWithConfig ==
    [][lastEvent' = "down" =>
          /\ currentPath' # NoPath
          /\ Len(currentPath'.points) = 1
          /\ currentPath'.points[1] \in Pixels
          /\ currentPath'.tool = activeTool
          /\ currentPath'.color = brushColor
          /\ activeTool = "brush" => currentPath'.width = brushSize
          /\ activeTool = "eraser" => currentPath'.width = eraserSize]_vars

\* an eraser stroke was opened after the eraser width was changed
C14_Witness ==
    /\ lastEvent = "down"
    /\ activeTool = "eraser"
    /\ eraserSize = ERASER_MAX
    /\ currentPath # NoPath
    /\ currentPath.tool = "eraser"
    /\ currentPath.width = ERASER_MAX

\* C15: undo() and clear() on an empty Stroke Log change nothing: the log
\* stays empty, the stroke in progress and the configuration are unchanged.
C15_UndoClearOnEmptyLog ==
    [][(lastEvent' \in {"undo", "clear"} /\ settled.strokes = << >>) =>
          /\ strokes' = << >>
          /\ settled'.strokes = << >>
          /\ settled'.currentPath = settled.currentPath
          /\ settled'.isDrawing = settled.isDrawing
          /\ config' = config
          /\ aspectRatio' = aspectRatio]_vars

\* undo() was called on an empty log while a stroke is in progress
C15_Witness ==
    /\ lastEvent = "undo"
    /\ commits = 0
    /\ undos = 1
    /\ strokes = << >>
    /\ currentPath # NoPath

\* the width a stroke of the given tool may carry
widthInBounds(tool, w) ==
    IF tool = "brush" THEN BRUSH_MIN <= w /\ w <= BRUSH_MAX
    ELSE ERASER_MIN <= w /\ w <= ERASER_MAX

\* C17: no out-of-range width is ever stored: the brush width stays within
\* 1..50 and the eraser width within 1..100, so every stroke of the log (and
\* the stroke in progress) has a width within the bounds of its tool.
C17_WidthsInBounds ==
    /\ BRUSH_MIN <= brushSize /\ brushSize <= BRUSH_MAX
    /\ ERASER_MIN <= eraserSize /\ eraserSize <= ERASER_MAX
    /\ \A i \in 1..Len(settled.strokes) :
          widthInBounds(settled.strokes[i].tool, settled.strokes[i].width)
    /\ \A i \in 1..Len(strokes) : widthInBounds(strokes[i].tool, strokes[i].width)
    /\ currentPath # NoPath => widthInBounds(currentPath.tool, currentPath.width)

\* both sliders were moved to their upper end and a brush stroke of the
\* largest width is in the log
C17_Witness ==
    /\ lastEvent = "eraserSize"
    /\ eraserSize = ERASER_MAX
    /\ brushSize = BRUSH_MAX
    /\ strokes # << >>
    /\ strokes[1].tool = "brush"
    /\ strokes[1].width = BRUSH_MAX

(* ------------------------------ Renderer ------------------------------ *)
\* the strokes draw() iterates over: the log followed by the stroke in progress
layers == IF currentPath = NoPath THEN strokes ELSE Append(strokes, currentPath)

\* stroke j is the last of the list that covers the pixel c
topAt(list, j, c) ==
    /\ Covers(list[j], c)
    /\ \A k \in (j + 1)..Len(list) : ~Covers(list[k], c)

\* C19: compositing follows the insertion order of the log followed by the
\* stroke in progress.  Whenever a step repaints the surface, a pixel covered
\* by two strokes shows the later one: no paint (the background after export,
\* whatever colour the eraser stroke stores) when the later one is an eraser
\* stroke, the brush colour when the later one is a brush stroke.
C19_InsertionOrderCompositing ==
    [][(lastEvent' \in {"down", "undo", "clear"} \/ strokes' # strokes
           \/ currentPath' # currentPath) =>
          \A c \in Pixels : \A i, j \in 1..Len(layers') :
             (i < j /\ Covers(layers'[i], c) /\ topAt(layers', j, c)) =>
                /\ layers'[j].tool = "eraser" =>
                      /\ canvas'.pixels[c] = TRANSPARENT
                      /\ getCanvasData(canvas').pixels[c] = BACKGROUND
                /\ layers'[j].tool = "brush" =>
                      /\ canvas'.pixels[c] = layers'[j].color
                      /\ getCanvasData(canvas').pixels[c] = layers'[j].color]_vars

\* an eraser stroke was opened over a committed brush stroke: the pixel both
\* cover carries no paint
C19_Witness ==
    /\ lastEvent = "down"
    /\ Len(strokes) = 1
    /\ strokes[1].tool = "brush"
    /\ currentPath # NoPath
    /\ currentPath.tool = "eraser"
    /\ \E c \in Pixels :
          /\ Covers(strokes[1], c)
          /\ Covers(currentPath, c)
          /\ canvas.pixels[c] = TRANSPARENT

\* the rendered state after pointer-begin at e, pointer-end and one undo(), each
\* handled and rendered in turn from the present state
afterCommitAndUndo(e) ==
    LET B == openStroke(getCanvasCoordinates(e))
        opened == applyUpdate(rendered(<< >>), [op |-> "down", path |-> B])
        committed == applyUpdate(opened, [op |-> "up", path |-> opened.currentPath])
    IN  applyUpdate(committed, [op |-> "set", value |-> slice(committed.strokes)])

\* C20: from any Idle state, committing a stroke (brush or eraser) and then
\* calling undo() once restores both the Stroke Log and the exported image to
\* what they were before the commit.
C20_CommitUndoRoundTrip ==
    (~isDrawing /\ currentPath = NoPath /\ queue = << >> /\ Len(strokes) < MaxStrokes) =>
        \A e \in Events :
            /\ afterCommitAndUndo(e).strokes = strokes
            /\ getCanvasData(draw(canvas, afterCommitAndUndo(e).strokes,
                                  afterCommitAndUndo(e).currentPath))
                  = getCanvasData(canvas)

(* --------------------------------- App -------------------------------- *)
\* C16: when the export is requested and the drawing surface is not available,
\* the export returns null, the caller sets a user-facing error and makes no
\* generation request: the loading flag is not raised and generateImage is not
\* called for that attempt.
C16_NullExportAbortsGeneration ==
    [][(lastEvent' = "generate" /\ canvasData' = NoData) =>
          /\ error' = [message |-> "Could not get sketch data."]
          /\ ~isLoading /\ ~isLoading'
          /\ request = NoRequest /\ request' = NoRequest
          /\ generatedImage' = generatedImage]_vars

\* Generate was clicked with a committed stroke and an uploaded image, the
\* export gave null and the error is shown
C16_Witness ==
    /\ lastEvent = "generate"
    /\ canvasData = NoData
    /\ error = SKETCH_ERROR
    /\ ~isLoading
    /\ request = NoRequest
    /\ strokes # << >>
    /\ refImage1 # NoFile

\* C18: after any sequence of upload attempts each of the three image slots is
\* null or a file whose MIME type is image/jpeg, image/png or image/webp; an
\* upload of any other type does not reach the application and leaves the slot
\* null, so no generation request carries such a file.
C18_SlotsHoldAcceptedImages ==
    /\ \A u \in Uploaders :
          \/ slot(u) = NoFile
          \/ slot(u).type \in {"image/jpeg", "image/png", "image/webp"}
    /\ (lastEvent = "upload"
          /\ lastUpload.file.type \notin {"image/jpeg", "image/png", "image/webp"}) =>
             slot(lastUpload.uploader) = NoFile
    /\ request # NoRequest =>
          \A img \in {request.refImage1, request.refImage2, request.bgImage} :
             \/ img = NoFile
             \/ img.type \in {"image/jpeg", "image/png", "image/webp"}

\* a GIF was dropped on an uploader that held an accepted file (its reader is
\* still loading): the slot is null again
C18_Witness ==
    /\ lastEvent = "upload"
    /\ lastUpload.file.type = "image/gif"
    /\ reading[lastUpload.uploader] # << >>
    /\ slot(lastUpload.uploader) = NoFile

(* ------------------------------ Exporter ------------------------------ *)
\* C21: an export made while a stroke is in progress includes that stroke's
\* paint: the image is the background with the committed log followed by the
\* in-progress stroke composited, and the export changes neither the Stroke
\* Log, the in-progress stroke nor the live surface.
C21_ExportWhileDrawing ==
    [][(lastEvent' = "export" /\ isDrawing /\ currentPath # NoPath) =>
          /\ canvasData'.pixels =
                [c \in Pixels |->
                    LET p == paintAll([d \in Pixels |-> TRANSPARENT],
                                      Append(strokes, currentPath))[c]
                    IN  IF p = TRANSPARENT THEN BACKGROUND ELSE p]
          /\ strokes' = strokes
          /\ currentPath' = currentPath
          /\ isDrawing' = isDrawing
          /\ canvas' = canvas]_vars

(* --------------------------- Input Tracker ---------------------------- *)
\* C22: in every reachable state the drawing flag and the in-progress slot
\* agree: isDrawing is true if and only if currentPath is non-null, in the
\* rendered state and in the state the queued updates lead to.
C22_FlagAgreesWithSlot ==
    /\ isDrawing <=> (currentPath # NoPath)
    /\ settled.isDrawing <=> (settled.currentPath # NoPath)

\* Drawing with an open stroke of two points after one stroke was committed
C22_Witness ==
    /\ isDrawing
    /\ currentPath # NoPath
    /\ Len(currentPath.points) = 2
    /\ Len(strokes) = 1
    /\ lastEvent = "render"

\* C23: undo() and clear() called while a stroke is in progress change only
\* the committed log: the in-progress stroke and the Drawing state are
\* untouched, and the pointer-end that follows still commits the stroke, so
\* after clear() the log holds exactly that one stroke.
C23_UndoClearKeepOpenStroke ==
    [][/\ (lastEvent' \in {"undo", "clear"} /\ settled.currentPath # NoPath) =>
              /\ settled'.currentPath = settled.currentPath
              /\ settled'.isDrawing /\ settled.isDrawing
              /\ lastEvent' = "clear" => settled'.strokes = << >>
              /\ lastEvent' = "undo" =>
                    settled'.strokes =
                       SubSeq(settled.strokes, 1, Len(settled.strokes) - 1)
       /\ (lastEvent' \in {"up", "leave"} /\ lastEvent \in {"undo", "clear"}
              /\ settled.currentPath # NoPath) =>
              /\ settled'.strokes = Append(settled.strokes, settled.currentPath)
              /\ lastEvent = "clear" => settled'.strokes = << settled.currentPath >>
              /\ settled'.currentPath = NoPath]_vars

\* a committed stroke was undone while a two-point stroke is in progress
C23_Witness ==
    /\ lastEvent = "undo"
    /\ commits = 1
    /\ undos = 1
    /\ strokes = << >>
    /\ isDrawing
    /\ currentPath # NoPath
    /\ Len(currentPath.points) = 2

=============================================================================
